---- MODULE Spec2Model ----
(***************************************************************************)
(* Model of the Space Haven mod loader's registry (src/ui/database.py):    *)
(* ModDatabase (scan, prefix map), Mod (manifest load, enable/disable,     *)
(* automatic ID allocation).                                               *)
(*                                                                         *)
(* Python strings whose content matters (names, versions, modid text,      *)
(* folder names) are sequences of code points; strings that are only       *)
(* carried around (descriptions, log kinds) are TLA+ strings.              *)
(***************************************************************************)
EXTENDS Integers, Sequences, FiniteSets, TLC

\* ------------------------------------------------------------------ bounds
\* largest number of entries in a scanned root directory
MaxEntries == 3
\* largest length of a mod's _mappedIDs list
MaxLedger == 2

\* ------------------------------------------------------- string primitives
RECURSIVE LexLess(_, _)
\* Python's str < str: lexicographic on code points, a proper prefix is smaller
LexLess(a, b) ==
    IF b = <<>> THEN FALSE
    ELSE IF a = <<>> THEN TRUE
    ELSE IF Head(a) # Head(b) THEN Head(a) < Head(b)
    ELSE LexLess(Tail(a), Tail(b))

\* Python's `needle in hay` for strings
Contains(hay, needle) ==
    \E i \in 0..(Len(hay) - Len(needle)) :
        SubSeq(hay, i + 1, i + Len(needle)) = needle

\* the characters str.strip("\r\n\t ") removes
StripChars == {13, 10, 9, 32}

RECURSIVE LStrip(_)
LStrip(s) ==
    IF s # <<>> /\ Head(s) \in StripChars THEN LStrip(Tail(s)) ELSE s

RECURSIVE RStrip(_)
RStrip(s) ==
    IF s # <<>> /\ s[Len(s)] \in StripChars
    THEN RStrip(SubSeq(s, 1, Len(s) - 1)) ELSE s

Strip(s) == RStrip(LStrip(s))

IsDigit(c) == c \in 48..57

RECURSIVE DigitsValue(_)
\* value of a non-empty string of decimal digits
DigitsValue(s) ==
    IF s = <<>> THEN 0
    ELSE 10 * DigitsValue(SubSeq(s, 1, Len(s) - 1)) + (s[Len(s)] - 48)

\* Python's int(str): optional sign, then decimal digits ("ok" = FALSE is
\* the ValueError for anything else)
PyInt(s) ==
    LET t    == Strip(s)
        neg  == t # <<>> /\ Head(t) = 45
        sign == t # <<>> /\ Head(t) \in {43, 45}
        d    == IF sign THEN Tail(t) ELSE t
    IN  IF d # <<>> /\ \A i \in 1..Len(d) : IsDigit(d[i])
        THEN [ok |-> TRUE, val |-> IF neg THEN 0 - DigitsValue(d) ELSE DigitsValue(d)]
        ELSE [ok |-> FALSE, val |-> 0]

RECURSIVE NatStr(_)
NatStr(n) ==
    IF n < 10 THEN <<48 + n>> ELSE Append(NatStr(n \div 10), 48 + (n % 10))

\* Python's str(int)
PyStr(n) == IF n < 0 THEN <<45>> \o NatStr(0 - n) ELSE NatStr(n)

\* ------------------------------------------------------------ file system
\* the literal 'spacehaven' of locateMods
SPACEHAVEN == <<115, 112, 97, 99, 101, 104, 97, 118, 101, 110>>
\* the failure marker " [!]" appended to a mod's name
FAIL_MARK == <<32, 91, 33, 93>>

\* an XML child element: absent, present without text, or present with text
NoTag == [present |-> FALSE, hasText |-> FALSE, text |-> <<>>]
EmptyTag == [present |-> TRUE, hasText |-> FALSE, text |-> <<>>]
Tag(t) == [present |-> TRUE, hasText |-> TRUE, text |-> t]

\* a well-formed manifest with the given children
Manifest(n, d, v, id, mlv) ==
    [wellformed |-> TRUE, name |-> n, description |-> d, version |-> v,
     modid |-> id, minimumLoaderVersion |-> mlv]

\* a manifest file that is not XML
Garbled ==
    [wellformed |-> FALSE, name |-> NoTag, description |-> NoTag, version |-> NoTag,
     modid |-> NoTag, minimumLoaderVersion |-> NoTag]

\* a directory entry of a mods root: folder name, file or directory, which
\* manifest file it holds ("none", "info", "info.xml") and the manifest
Entry(f, k, mf, x) == [folder |-> f, kind |-> k, manifest |-> mf, xml |-> x]

V_OLD == <<48, 46, 49>>
V_NEW == <<57, 46, 48, 46, 48>>

\* the directory entries the scans of this model meet
Catalog ==
    [alpha   |-> Entry(<<97, 108, 112, 104, 97>>, "dir", "info",
                  Manifest(Tag(<<65, 108, 112, 104, 97>>), Tag(<<100>>), Tag(<<49, 46, 48>>), Tag(<<50>>), Tag(V_OLD))),
     beta    |-> Entry(<<98, 101, 116, 97>>, "dir", "info.xml",
                  Manifest(Tag(<<32, 66, 101, 116, 97, 10>>), Tag(<<100>>), NoTag, NoTag, Tag(V_OLD))),
     gamma   |-> Entry(<<103, 97, 109, 109, 97>>, "dir", "info",
                  Manifest(Tag(<<71, 97, 109, 109, 97>>), Tag(<<100>>), Tag(<<49, 46, 48>>), Tag(<<51>>), Tag(V_OLD))),
     twin    |-> Entry(<<116, 119, 105, 110>>, "dir", "info",
                  Manifest(Tag(<<71, 97, 109, 109, 97>>), Tag(<<100>>), Tag(<<50, 46, 48>>), Tag(<<51>>), Tag(V_OLD))),
     core    |-> Entry(<<115, 112, 97, 99, 101, 104, 97, 118, 101, 110, 95, 49>>, "dir", "info",
                  Manifest(Tag(<<67, 111, 114, 101>>), Tag(<<100>>), NoTag, NoTag, Tag(V_OLD))),
     logs    |-> Entry(<<108, 111, 103, 115, 46, 116, 120, 116>>, "file", "none", Garbled),
     empty   |-> Entry(<<101, 109, 112, 116, 121>>, "dir", "none", Garbled),
     noname  |-> Entry(<<110, 111, 110, 97, 109, 101>>, "dir", "info",
                  Manifest(NoTag, Tag(<<100>>), NoTag, Tag(<<51>>), Tag(V_OLD))),
     nodesc  |-> Entry(<<110, 111, 100, 101, 115, 99>>, "dir", "info",
                  Manifest(Tag(<<68, 101, 108, 116, 97>>), EmptyTag, NoTag, NoTag, Tag(V_OLD))),
     badid   |-> Entry(<<98, 97, 100, 105, 100>>, "dir", "info",
                  Manifest(Tag(<<69, 112, 115>>), Tag(<<100>>), NoTag, Tag(<<97, 98, 99>>), Tag(V_OLD))),
     noloader |-> Entry(<<110, 111, 108, 111, 97, 100, 101, 114>>, "dir", "info",
                  Manifest(Tag(<<90, 101, 116, 97>>), Tag(<<100>>), NoTag, Tag(<<50>>), NoTag)),
     newer   |-> Entry(<<110, 101, 119, 101, 114>>, "dir", "info",
                  Manifest(Tag(<<69, 116, 97>>), Tag(<<100>>), NoTag, NoTag, Tag(V_NEW))),
     clone   |-> Entry(<<99, 108, 111, 110, 101>>, "dir", "info",
                  Manifest(Tag(<<71, 97, 109, 109, 97>>), Tag(<<100>>), Tag(<<49, 46, 48>>), Tag(<<52>>), Tag(V_OLD)))]

FolderIds == DOMAIN Catalog

\* the mods roots (Window.modPath entries)
Roots == {"mods"}

\* the values of ModDatabase.path_list handed to the constructor
PathLists == {<<"mods">>, <<"mods", "mods">>}

\* ---------------------------------------------------------------- versions
RECURSIVE SplitDots(_)
\* str.split('.') on a code-point string
SplitDots(s) ==
    IF \A i \in 1..Len(s) : s[i] # 46 THEN <<s>>
    ELSE LET k == CHOOSE i \in 1..Len(s) : s[i] = 46 /\ \A j \in 1..(i - 1) : s[j] # 46
         IN  <<SubSeq(s, 1, k - 1)>> \o SplitDots(SubSeq(s, k + 1, Len(s)))

\* distutils.version.StrictVersion(vstring) for the forms "N.N" and "N.N.N"
\* (a pre-release suffix does not occur in Catalog): the parsed triple, or
\* "ok" = FALSE for the ValueError "invalid version number"
StrictVersion(s) ==
    LET parts == SplitDots(s)
        good  == /\ Len(parts) \in {2, 3}
                 /\ \A i \in 1..Len(parts) :
                        parts[i] # <<>> /\ \A j \in 1..Len(parts[i]) : IsDigit(parts[i][j])
    IN  IF good
        THEN [ok |-> TRUE,
              version |-> <<DigitsValue(parts[1]), DigitsValue(parts[2]),
                            IF Len(parts) = 3 THEN DigitsValue(parts[3]) ELSE 0>>]
        ELSE [ok |-> FALSE, version |-> <<0, 0, 0>>]

\* StrictVersion.__gt__ on parsed triples
VersionGreater(a, b) ==
    \/ a[1] > b[1]
    \/ a[1] = b[1] /\ a[2] > b[2]
    \/ a[1] = b[1] /\ a[2] = b[2] /\ a[3] > b[3]

\* version.version, the running loader's own version
LOADER_VERSION == <<48, 46, 49, 48, 46, 48>>

\* ------------------------------------------------------------- Mod entity
\* Mod.__init__ up to the call of loadInfo.  attrsSet is FALSE while the
\* attributes assigned by lines 134-139 (version .. prefix) do not exist;
\* reading one of them then raises AttributeError.
NewMod(path, entry, markerPresent) ==
    [path |-> path,
     name |-> entry.folder,
     description |-> [kind |-> "unset", text |-> <<>>, warnings |-> <<>>],
     version |-> <<>>,
     prefix |-> 0,
     attrsSet |-> FALSE,
     enabled |-> ~markerPresent,
     mappedIDs |-> <<>>]

\* the except AttributeError handler of loadInfo
ParseFailure(m) ==
    [m EXCEPT !.name = m.name \o FAIL_MARK,
              !.description = [kind |-> "parse_error", text |-> <<>>, warnings |-> <<>>]]

\* Mod.warn
Warn(m, message) ==
    [m EXCEPT !.name = m.name \o FAIL_MARK,
              !.description.warnings = Append(m.description.warnings, message)]

\* _sanitize(mod.find(tag)) succeeds: the element exists and has text
CanSanitize(tag) == tag.present /\ tag.hasText

\* _optional(tag)
Optional(tag) == IF CanSanitize(tag) THEN Strip(tag.text) ELSE <<>>

\* Mod.verifyLoaderVersion: the mod afterwards and the exception raised
\* ("none", "AttributeError", "ValueError")
VerifyLoaderVersion(m, xml) ==
    LET t == xml.minimumLoaderVersion
    IN  IF ~CanSanitize(t) THEN [exc |-> "AttributeError", mod |-> m]
        ELSE IF ~StrictVersion(t.text).ok \/ ~StrictVersion(LOADER_VERSION).ok
             THEN [exc |-> "ValueError", mod |-> m]
        ELSE IF VersionGreater(StrictVersion(t.text).version,
                               StrictVersion(LOADER_VERSION).version)
             THEN [exc |-> "none", mod |-> Warn(m, "loader_version_required")]
        ELSE [exc |-> "none", mod |-> m]

\* Mod.loadInfo: the mod afterwards and the exception that escapes
\* ("none", "ParseError", "ValueError")
LoadInfo(m, entry) ==
    LET xml == entry.xml
    IN  IF entry.manifest = "none"
        THEN [exc |-> "none",
              mod |-> [m EXCEPT !.name = m.name \o FAIL_MARK,
                                !.description = [kind |-> "no_info", text |-> <<>>,
                                                 warnings |-> <<>>]]]
        ELSE IF ~xml.wellformed THEN [exc |-> "ParseError", mod |-> m]
        ELSE IF ~CanSanitize(xml.name) THEN [exc |-> "none", mod |-> ParseFailure(m)]
        ELSE LET m1 == [m EXCEPT !.name = Strip(xml.name.text)]
             IN  IF ~CanSanitize(xml.description)
                 THEN [exc |-> "none", mod |-> ParseFailure(m1)]
                 ELSE LET idText == IF Optional(xml.modid) = <<>> THEN <<48>>
                                    ELSE Optional(xml.modid)
                          m2 == [m1 EXCEPT
                                    !.description = [kind |-> "manifest",
                                                     text |-> Strip(xml.description.text),
                                                     warnings |-> <<>>],
                                    !.version = Optional(xml.version)]
                      IN  IF ~PyInt(idText).ok THEN [exc |-> "ValueError", mod |-> m2]
                          ELSE LET m3 == [m2 EXCEPT !.prefix = PyInt(idText).val,
                                                    !.attrsSet = TRUE]
                                   r  == VerifyLoaderVersion(m3, xml)
                               IN  IF r.exc = "AttributeError"
                                   THEN [exc |-> "none", mod |-> ParseFailure(r.mod)]
                                   ELSE r

\* Mod(info_file, gameInfo) for every directory and marker state, tabulated
ModTable ==
    [path \in Roots \X FolderIds, markerPresent \in BOOLEAN |->
        LoadInfo(NewMod(path, Catalog[path[2]], markerPresent), Catalog[path[2]])]

\* Mod(info_file, gameInfo)
Mod(path, markerPresent) == ModTable[path, markerPresent]

\* Mod.title
Title(m) ==
    IF m.version # <<>> THEN m.name \o <<32, 40>> \o m.version \o <<41>> ELSE m.name

\* ------------------------------------------------------------------ state
VARIABLES
    listing,       \* os.listdir(root) of every root, in the order it returns
    marker,        \* the paths whose directory holds disabled.txt
    lastInstance,  \* ModDatabase.__lastInstance is not None
    path_list,     \* ModDatabase.path_list
    mods,          \* ModDatabase.mods
    Prefixes,      \* ModDatabase.Prefixes
    scanLog,       \* the prefix warnings the latest locateMods wrote to ui.log
    scanState,     \* "never", "done", or the exception that ended the latest locateMods
    granted,       \* history: per entity, the <<localID, result>> pairs returned, in order
    lastCall,      \* history: the latest Mod method call and its outcome
    gameVersion,   \* Window.gameInfo.version (NoGameInfo before locateSpacehaven)
    ui,            \* the state option of every control set_ui_state configures
    launchButton_default_text,  \* Window.launchButton_default_text
    cache,         \* the signatures for which a quick-launch file exists
    window,        \* "open" until master.destroy()
    can_quit,      \* Window.can_quit
    background_finished,  \* Window.background_finished
    background_thread,    \* Window.background_thread: position in workers, 0 for None
    background_counter,   \* Window.background_counter, as far as it is read: modulo 5
    pendingTicks,  \* the update_background_state callbacks scheduled with after()
    workers        \* the threads started and not joined: task, position, outcome

fsVars == <<listing, marker>>
dbVars == <<lastInstance, path_list, mods, Prefixes>>
scanVars == <<scanLog, scanState>>
uiVars == <<ui, launchButton_default_text, cache, window>>
runVars == <<can_quit, background_finished, background_thread, background_counter,
             pendingTicks, workers>>
appVars == <<gameVersion, uiVars, runVars>>
vars == <<listing, marker, lastInstance, path_list, mods, Prefixes,
          scanLog, scanState, granted, lastCall, gameVersion,
          ui, launchButton_default_text, cache, window, can_quit, background_finished,
          background_thread, background_counter, pendingTicks, workers>>

NoCall == [op |-> "none", mod |-> 0, arg |-> 0, exc |-> "none", ret |-> <<>>]

\* Window.gameInfo before locateSpacehaven has set it
NoGameInfo == <<>>

\* the game versions ui.gameinfo.GameInfo reads from the jar: "0.13.0", "0.14.1"
V_GAME == <<48, 46, 49, 51, 46, 48>>
V_GAME_NEXT == <<48, 46, 49, 52, 46, 49>>
GameVersions == {V_GAME, V_GAME_NEXT}

\* the empty dict
EmptyDict == [p \in {} |-> FALSE]

\* dict[k] = v
DictSet(d, k, v) == [p \in (DOMAIN d) \cup {k} |-> IF p = k THEN v ELSE d[p]]

\* sequences over S without repetition, of length at most n
Listings(S, n) ==
    {s \in UNION {[1..k -> S] : k \in 0..n} :
        \A i, j \in 1..Len(s) : i # j => s[i] # s[j]}

\* os.path.join(root, folder), keyed by the catalog id of the folder
Path(root, id) == <<root, id>>

\* the entries locateMods builds a Mod for
IsCandidate(entry) ==
    /\ ~Contains(entry.folder, SPACEHAVEN)
    /\ entry.kind = "dir"
    /\ entry.manifest # "none"

\* ------------------------------------------------------------ ModDatabase
RECURSIVE Insert(_, _)
\* place m behind every element whose name is not greater (stable)
Insert(m, sorted) ==
    IF sorted = <<>> THEN <<m>>
    ELSE IF LexLess(m.name, Head(sorted).name) THEN <<m>> \o sorted
    ELSE <<Head(sorted)>> \o Insert(m, Tail(sorted))

RECURSIVE SortByName(_)
\* list.sort(key=lambda mod: mod.name)
SortByName(s) ==
    IF s = <<>> THEN <<>>
    ELSE Insert(s[Len(s)], SortByName(SubSeq(s, 1, Len(s) - 1)))

\* a test that looks only at whether the prefix has an entry
PrefixInUse_AnyClaim(prefixes, prefix) == prefix \in DOMAIN prefixes

\* lines 49-53 of locateMods: True when the prefix is reported as in use
PrefixInUse(prefixes, prefix) == prefix \in DOMAIN prefixes /\ prefixes[prefix]

\* the body of the inner loop of locateMods for one directory entry
Visit(st, path, fsMarker) ==
    LET entry == Catalog[path[2]]
        r     == Mod(path, path \in fsMarker)
        m     == r.mod
    IN  IF st.exc # "none" THEN st
        ELSE IF Contains(entry.folder, SPACEHAVEN) THEN st
        ELSE IF entry.kind = "file" THEN st
        ELSE IF entry.manifest = "none" THEN st
        ELSE IF r.exc # "none" THEN [st EXCEPT !.exc = r.exc]
        ELSE IF ~m.attrsSet THEN [st EXCEPT !.exc = "AttributeError"]
        ELSE IF m.prefix = 0
             THEN [st EXCEPT !.mods = Append(st.mods, m)]
        ELSE IF PrefixInUse(st.prefixes, m.prefix)
             THEN [st EXCEPT !.mods = Append(st.mods, m),
                             !.log = Append(st.log, [prefix |-> m.prefix, title |-> Title(m)])]
        ELSE [st EXCEPT !.mods = Append(st.mods, m),
                        !.prefixes = DictSet(st.prefixes, m.prefix, m.enabled)]

RECURSIVE VisitAll(_, _, _)
VisitAll(st, paths, fsMarker) ==
    IF paths = <<>> THEN st
    ELSE VisitAll(Visit(st, Head(paths), fsMarker), Tail(paths), fsMarker)

RECURSIVE Walk(_, _)
\* for path in self.path_list: for modFolder in os.listdir(path)
Walk(pl, ls) ==
    IF pl = <<>> THEN <<>>
    ELSE [i \in 1..Len(ls[Head(pl)]) |-> Path(Head(pl), ls[Head(pl)][i])] \o Walk(Tail(pl), ls)

\* a scan that goes on from the prefix map it finds
ScanStart_KeepsPrefixes == [mods |-> <<>>, prefixes |-> Prefixes, log |-> <<>>, exc |-> "none"]

\* self.mods = [] and ModDatabase.Prefixes = {} at the head of locateMods
ScanStart == [mods |-> <<>>, prefixes |-> EmptyDict, log |-> <<>>, exc |-> "none"]

\* the whole of locateMods
ScanResult(pl, ls, fsMarker) ==
    LET st == VisitAll(ScanStart, Walk(pl, ls), fsMarker)
    IN  IF st.exc = "none" THEN [st EXCEPT !.mods = SortByName(st.mods)] ELSE st

\* ---------------------------------------------------------------- actions
\* DatabaseHandler(self.modPath, self.gameInfo)
NewDatabase(pl) ==
    /\ lastInstance' = TRUE
    /\ path_list' = pl
    /\ mods' = <<>>
    /\ granted' = <<>>
    /\ lastCall' = [NoCall EXCEPT !.op = "ModDatabase"]
    /\ UNCHANGED <<fsVars, Prefixes, scanVars, appVars>>

\* what the assignments self.mods = [] and ModDatabase.Prefixes = {} of
\* locateMods drop when the scan yields the prefix map prefixes: entities
\* with a ledger entry, entities whose flag disagrees with their marker file,
\* claims that are gone or hold another value afterwards
Discarded(prefixes) ==
    {k \in {"ledger"} : \E i \in 1..Len(mods) : mods[i].mappedIDs # <<>>}
    \cup {k \in {"flag"} : \E i \in 1..Len(mods) : mods[i].enabled = (mods[i].path \in marker)}
    \cup {k \in {"claim"} : \E p \in DOMAIN Prefixes :
                                 p \notin DOMAIN prefixes \/ prefixes[p] # Prefixes[p]}

\* DatabaseHandler.getInstance().locateMods(); lastCall also tells what the
\* call dropped
LocateMods ==
    /\ lastInstance
    /\ \E r \in {ScanResult(path_list, listing, marker)} :
           /\ mods' = r.mods
           /\ Prefixes' = r.prefixes
           /\ scanLog' = r.log
           /\ scanState' = IF r.exc = "none" THEN "done" ELSE r.exc
           /\ granted' = [i \in 1..Len(r.mods) |-> <<>>]
           /\ lastCall' = [op |-> "locateMods", mod |-> 0, arg |-> 0, exc |-> "none",
                           ret |-> <<>>, discarded |-> Discarded(r.prefixes)]
    /\ UNCHANGED <<fsVars, lastInstance, path_list, appVars>>

\* Mod.enable on the i-th registered mod
Enable(i) ==
    /\ i \in 1..Len(mods)
    /\ IF mods[i].path \in marker
       THEN /\ marker' = marker \ {mods[i].path}
            /\ mods' = [mods EXCEPT ![i].enabled = TRUE]
       ELSE UNCHANGED <<marker, mods>>
    /\ lastCall' = [NoCall EXCEPT !.op = "enable", !.mod = i]
    /\ UNCHANGED <<listing, lastInstance, path_list, Prefixes, scanVars, granted, appVars>>

\* Mod.disable on the i-th registered mod
Disable(i) ==
    /\ i \in 1..Len(mods)
    /\ marker' = marker \cup {mods[i].path}
    /\ mods' = [mods EXCEPT ![i].enabled = FALSE]
    /\ lastCall' = [NoCall EXCEPT !.op = "disable", !.mod = i]
    /\ UNCHANGED <<listing, lastInstance, path_list, Prefixes, scanVars, granted, appVars>>

\* autoIDAllocatedSize of getAutomaticID
autoIDAllocatedSize == 1000

\* the internal IDs handed to getAutomaticID
LocalIDs == {0, 999, 1000, 1001}

\* the test of getAutomaticID that raises RuntimeError
OutsideLimit(internalID) == internalID > autoIDAllocatedSize

\* a test that looks the global ID up in the ledger of local IDs
DoubleAllocation_GlobalLookup(m, internalID) ==
    \E k \in 1..Len(m.mappedIDs) :
        m.mappedIDs[k] = m.prefix * autoIDAllocatedSize + internalID

\* the test of getAutomaticID that raises ValueError
DoubleAllocation(m, internalID) == \E k \in 1..Len(m.mappedIDs) : m.mappedIDs[k] = internalID

\* an id that adds the prefix without scaling it
AutomaticID_Unscaled(m, internalID) == m.prefix + internalID

\* the id getAutomaticID computes
AutomaticID(m, internalID) == m.prefix * autoIDAllocatedSize + internalID

\* Mod.getAutomaticID on the i-th registered mod
GetAutomaticID(i, internalID) ==
    /\ i \in 1..Len(mods)
    /\ Len(mods[i].mappedIDs) < MaxLedger \/ DoubleAllocation(mods[i], internalID)
    /\ IF DoubleAllocation(mods[i], internalID)
       THEN /\ lastCall' = [op |-> "getAutomaticID", mod |-> i, arg |-> internalID,
                            exc |-> "ValueError", ret |-> <<>>]
            /\ UNCHANGED <<mods, granted>>
       ELSE /\ mods' = [mods EXCEPT ![i].mappedIDs = Append(@, internalID)]
            /\ IF OutsideLimit(internalID)
               THEN /\ lastCall' = [op |-> "getAutomaticID", mod |-> i, arg |-> internalID,
                                    exc |-> "RuntimeError", ret |-> <<>>]
                    /\ UNCHANGED granted
               ELSE /\ lastCall' = [op |-> "getAutomaticID", mod |-> i, arg |-> internalID,
                                    exc |-> "none",
                                    ret |-> PyStr(AutomaticID(mods[i], internalID))]
                    /\ granted' = [granted EXCEPT ![i] =
                                      Append(@, <<internalID, PyStr(AutomaticID(mods[i], internalID))>>)]
    /\ UNCHANGED <<fsVars, lastInstance, path_list, Prefixes, scanVars, appVars>>

\* the user removes disabled.txt by hand, as the marker's text invites
RemoveMarker(path) ==
    /\ path \in marker
    /\ marker' = marker \ {path}
    /\ lastCall' = NoCall
    /\ UNCHANGED <<listing, dbVars, scanVars, granted, appVars>>

\* a test that also refuses an instance whose latest scan did not complete
InstanceMissing_Unscanned == ~lastInstance \/ scanState # "done"

\* the test of getInstance that raises Exception("Mod Database not ready.")
InstanceMissing == ~lastInstance

\* the names of the accessors (class methods) of ModDatabase
Accessors == {"getActiveMods", "getInactiveMods", "getRegisteredMods", "getMod"}

\* ModDatabase.getActiveMods() on an existing instance
GetActiveMods == SelectSeq(mods, LAMBDA m : m.enabled)

\* ModDatabase.getInactiveMods() on an existing instance
GetInactiveMods == SelectSeq(mods, LAMBDA m : ~m.enabled)

\* ModDatabase.getRegisteredMods() on an existing instance
GetRegisteredMods == mods

\* ModDatabase.getMod(modPath) on an existing instance: the first entity with
\* that path as a one-element list, the empty list for None
GetMod(modPath) ==
    LET hits == SelectSeq(mods, LAMBDA m : m.path = modPath)
    IN  IF hits = <<>> THEN <<>> ELSE <<Head(hits)>>

\* a call of the accessor op from any state; every accessor starts with
\* cls.getInstance()
Access(op, modPath, result) ==
    /\ lastCall' = IF InstanceMissing
                   THEN [op |-> op, mod |-> 0, arg |-> modPath, exc |-> "Exception",
                         ret |-> <<>>]
                   ELSE [op |-> op, mod |-> 0, arg |-> modPath, exc |-> "none",
                         ret |-> result]
    /\ UNCHANGED <<fsVars, dbVars, scanVars, granted, appVars>>

\* ------------------------------------------------------------- front-end
\* tkinter's NORMAL and DISABLED
NORMAL == "normal"
DISABLED == "disabled"

\* the controls set_ui_state configures
Controls ==
    {"launchButton", "modEnableDisable", "spacehavenBrowse", "quickLaunchClear",
     "modListRefresh", "modListOpenFolder", "extractButton", "annotateButton",
     "quitButton"}

\* a set_ui_state that leaves the launch button as it is created
set_ui_state_SparesLaunch(state) ==
    [c \in Controls |-> IF c = "launchButton" THEN NORMAL ELSE state]

\* Window.set_ui_state: the state option of every control afterwards
set_ui_state(state) == [c \in Controls |-> state]

\* the texts check_quick_launch gives the launch button
LaunchTexts == {"LAUNCH ORIGINAL GAME", "QUICKLAUNCH!", "LAUNCH!"}

\* the window after Window.__init__ and before any game was located: controls
\* as created, class attributes at their defaults, no quick-launch file yet
WindowConstructed ==
    /\ ui = [c \in Controls |-> NORMAL]
    /\ launchButton_default_text = "LAUNCH!"
    /\ cache = {}
    /\ window = "open"
    /\ can_quit = TRUE
    /\ background_finished = TRUE
    /\ background_thread = 0
    /\ background_counter = 0
    /\ pendingTicks = 0
    /\ workers = <<>>

\* tkinter invokes a Button's command only while the window exists and the
\* button's state is not DISABLED
Clickable(control) == window = "open" /\ ui[control] = NORMAL

\* ------------------------------------------------------- build signature
\* the first token of the signature, "spacehaven"
SignatureLiteral == <<115, 112, 97, 99, 101, 104, 97, 118, 101, 110>>

\* the token "VERSION_UNKNOWN" that stands for an undeclared version
VERSION_UNKNOWN ==
    <<86, 69, 82, 83, 73, 79, 78, 95, 85, 78, 75, 78, 79, 87, 78>>

\* the separator "__" of the join
Separator == <<95, 95>>

RECURSIVE Join(_, _)
\* sep.join(tokens)
Join(sep, tokens) ==
    IF tokens = <<>> THEN <<>>
    ELSE IF Len(tokens) = 1 THEN tokens[1]
    ELSE tokens[1] \o sep \o Join(sep, Tail(tokens))

\* str.lower() on the code points below 128: A-Z become a-z
Lower(t) == [i \in 1..Len(t) |-> IF t[i] \in 65..90 THEN t[i] + 32 ELSE t[i]]

RECURSIVE Utf8(_)
\* str.encode('utf-8') on code points below 2048: one byte below 128, else two
Utf8(t) ==
    IF t = <<>> THEN <<>>
    ELSE (IF Head(t) < 128 THEN <<Head(t)>>
          ELSE <<192 + (Head(t) \div 64), 128 + (Head(t) % 64)>>) \o Utf8(Tail(t))

\* hashlib.md5(bytes).hexdigest(): a function of the bytes alone; taken to be
\* free of collisions on the texts of this model
Md5HexDigest(bytes) == [md5 |-> bytes]

RECURSIVE ModTokens(_)
\* the loop of current_mods_signature: name, then version or "VERSION_UNKNOWN"
ModTokens(active) ==
    IF active = <<>> THEN <<>>
    ELSE <<Head(active).name,
           IF Head(active).version # <<>> THEN Head(active).version ELSE VERSION_UNKNOWN>>
         \o ModTokens(Tail(active))

\* a token list that leaves the game version out
SignatureTokens_NoGameVersion(version, active) == <<SignatureLiteral>> \o ModTokens(active)

\* mods_signature of current_mods_signature
SignatureTokens(version, active) == <<SignatureLiteral, version>> \o ModTokens(active)

\* text_sig of current_mods_signature: the tokens, joined, lower-cased (each
\* step computed once)
TextSig(version, active) ==
    CHOOSE text \in {Lower(joined) :
                        joined \in {Join(Separator, tokens) :
                                       tokens \in {SignatureTokens(version, active)}}} : TRUE

\* the md5 current_mods_signature returns
Signature(version, active) ==
    CHOOSE digest \in {Md5HexDigest(Utf8(text)) : text \in {TextSig(version, active)}} : TRUE

\* a signature built from every registered mod, enabled or not
mods_enabled_Registered == GetRegisteredMods

\* Window.mods_enabled
mods_enabled == GetActiveMods

\* the (name, version) pairs of a list of mods, in order
NameVersionPairs(active) == [k \in 1..Len(active) |-> <<active[k].name, active[k].version>>]

\* Window.quick_launch_available for the given active mods
QuickLaunchAvailable(version, active, files) == Signature(version, active) \in files

\* Window.check_quick_launch: the launch button's text and the state of the
\* clear button it leaves
CheckQuickLaunch(version, active, files) ==
    IF active = <<>> THEN [text |-> "LAUNCH ORIGINAL GAME", clear |-> DISABLED]
    ELSE IF QuickLaunchAvailable(version, active, files)
         THEN [text |-> "QUICKLAUNCH!", clear |-> NORMAL]
    ELSE [text |-> "LAUNCH!", clear |-> DISABLED]

\* Window.current_mods_signature, once locateSpacehaven has set gameInfo
CurrentModsSignature ==
    /\ window = "open"
    /\ lastInstance
    /\ gameVersion # NoGameInfo
    /\ lastCall' = [op |-> "current_mods_signature", mod |-> 0, arg |-> 0, exc |-> "none",
                    ret |-> Signature(gameVersion, mods_enabled),
                    text_sig |-> TextSig(gameVersion, mods_enabled)]
    /\ UNCHANGED <<fsVars, dbVars, scanVars, granted, appVars>>

\* what locateSpacehaven and refreshModList share: the scan of the database
\* over pl, then check_quick_launch; a scan that raises leaves the handler
\* before check_quick_launch is reached
Rescan(op, version, pl) ==
    /\ gameVersion' = version
    /\ lastInstance' = TRUE
    /\ path_list' = pl
    /\ \E r \in {ScanResult(pl, listing, marker)} :
           /\ mods' = r.mods
           /\ Prefixes' = r.prefixes
           /\ scanLog' = r.log
           /\ scanState' = IF r.exc = "none" THEN "done" ELSE r.exc
           /\ granted' = [i \in 1..Len(r.mods) |-> <<>>]
           /\ lastCall' = [NoCall EXCEPT !.op = op, !.exc = r.exc]
           /\ IF r.exc = "none"
              THEN LET c == CheckQuickLaunch(version, SelectSeq(r.mods, LAMBDA m : m.enabled),
                                             cache)
                   IN  /\ ui' = [ui EXCEPT !["quickLaunchClear"] = c.clear]
                       /\ launchButton_default_text' = c.text
              ELSE UNCHANGED <<ui, launchButton_default_text>>
    /\ UNCHANGED <<fsVars, cache, window, runVars>>

\* Window.locateSpacehaven for a game of the given version whose mods roots
\* are pl: gameInfo, a new database, then refreshModList
LocateSpacehaven(version, pl) == Rescan("locateSpacehaven", version, pl)

\* Window.toggle_current_mod with the i-th mod selected: Mod.disable or
\* Mod.enable, then check_quick_launch
ToggleCurrentMod(i) ==
    /\ i \in 1..Len(mods)
    /\ IF mods[i].enabled
       THEN /\ marker' = marker \cup {mods[i].path}
            /\ mods' = [mods EXCEPT ![i].enabled = FALSE]
       ELSE IF mods[i].path \in marker
            THEN /\ marker' = marker \ {mods[i].path}
                 /\ mods' = [mods EXCEPT ![i].enabled = TRUE]
            ELSE UNCHANGED <<marker, mods>>
    /\ LET c == CheckQuickLaunch(gameVersion, SelectSeq(mods', LAMBDA m : m.enabled), cache)
       IN  /\ ui' = [ui EXCEPT !["quickLaunchClear"] = c.clear]
           /\ launchButton_default_text' = c.text
    /\ lastCall' = [NoCall EXCEPT !.op = "toggle_current_mod", !.mod = i]
    /\ UNCHANGED <<listing, lastInstance, path_list, Prefixes, scanVars, granted,
                   gameVersion, cache, window, runVars>>

\* -------------------------------------------------- background task runner
\* the methods handed to start_background_task
Tasks == {"launch_vanilla", "quick_launch", "patchAndLaunch", "extract_assets", "annotate"}

\* where the calls a task makes can raise: inside the task's own try block or
\* outside of one
RaisePoints(task) ==
    CASE task = "launch_vanilla" -> {"outside_try"}
      [] task = "quick_launch" -> {"inside_try"}
      [] task = "patchAndLaunch" -> {"inside_try"}
      [] task = "extract_assets" -> {"outside_try"}
      [] task = "annotate" -> {"inside_try", "outside_try"}

\* what the operator gets from a task whose call raised: the error dialog of
\* the except blocks of quick_launch and patchAndLaunch, the log lines of
\* annotate's except block, nothing for an exception no try block covers
Handling(task, where) ==
    IF where = "inside_try"
    THEN (IF task = "annotate" THEN "log" ELSE "messagebox")
    ELSE "none"

\* a wrapper that sets the flag only when task() returns
FinallyRuns_OnReturnOnly(raised) == raised \in {"none", "inside_try"}

\* the exits of task() after which _wrapper's finally block runs: all of them
FinallyRuns(raised) == TRUE

\* a disable_UI that leaves the Enable/Disable button usable
disable_UI_SparesToggle ==
    [ui |-> [set_ui_state(DISABLED) EXCEPT !["modEnableDisable"] = NORMAL], can_quit |-> FALSE]

\* a disable_UI that leaves can_quit set
disable_UI_StillQuits == [ui |-> set_ui_state(DISABLED), can_quit |-> TRUE]

\* Window.disable_UI: the controls and can_quit afterwards
disable_UI == [ui |-> set_ui_state(DISABLED), can_quit |-> FALSE]

\* Window.enable_UI: the controls and can_quit afterwards
enable_UI == [ui |-> set_ui_state(NORMAL), can_quit |-> TRUE]

\* the task launch_wrapper picks
LaunchTask ==
    IF mods_enabled = <<>> THEN "launch_vanilla"
    ELSE IF QuickLaunchAvailable(gameVersion, mods_enabled, cache) THEN "quick_launch"
    ELSE "patchAndLaunch"

\* the value standing for "no signature was computed"
NoSignature == [md5 |-> <<>>]

\* the signature launch_wrapper computes while it picks the task: the one
\* quick_launch_available asks the cache for, none when no mod is enabled
DecisionSignature ==
    IF mods_enabled = <<>> THEN NoSignature ELSE Signature(gameVersion, mods_enabled)

\* the signature the task computes on the worker thread and passes to
\* loader.load.quickload or loader.load.load
PassedSignature(task) ==
    IF task \in {"quick_launch", "patchAndLaunch"}
    THEN Signature(gameVersion, mods_enabled) ELSE NoSignature

\* Window.start_background_task(task, message); decided is the signature the
\* caller picked the task with
StartBackgroundTask(task, decided) ==
    /\ ui' = disable_UI.ui
    /\ can_quit' = disable_UI.can_quit
    /\ background_finished' = FALSE
    /\ background_counter' = 0
    /\ workers' = Append(workers, [task |-> task, pc |-> "running", raised |-> "none",
                                   surfaced |-> "none", decided |-> decided,
                                   passed |-> NoSignature])
    /\ background_thread' = Len(workers) + 1
    /\ pendingTicks' = pendingTicks + 1

\* Window.launch_wrapper: mods_enabled raises before any game was located
LaunchWrapper ==
    /\ IF lastInstance
       THEN /\ StartBackgroundTask(LaunchTask, DecisionSignature)
            /\ lastCall' = [NoCall EXCEPT !.op = "launch_wrapper", !.arg = LaunchTask]
       ELSE /\ lastCall' = [NoCall EXCEPT !.op = "launch_wrapper", !.exc = "Exception"]
            /\ UNCHANGED <<ui, runVars>>
    /\ UNCHANGED <<fsVars, dbVars, scanVars, granted, gameVersion,
                   launchButton_default_text, cache, window>>

\* the command of extractButton and of annotateButton
StartButton(task) ==
    /\ StartBackgroundTask(task, NoSignature)
    /\ lastCall' = [NoCall EXCEPT !.op = "start_background_task", !.arg = task]
    /\ UNCHANGED <<fsVars, dbVars, scanVars, granted, gameVersion,
                   launchButton_default_text, cache, window>>

\* the worker thread: task() runs to its end, returning or raising at one of
\* its raise points; extract_assets and annotate cannot return before a game
\* was located (self.modPath is None); a patch that returns may have written
\* the quick-launch file of the current signature
TaskEnds(w, where) ==
    /\ w \in 1..Len(workers)
    /\ workers[w].pc = "running"
    /\ where \in {"none"} \cup RaisePoints(workers[w].task)
    /\ (where = "none" /\ workers[w].task \in {"extract_assets", "annotate"}) => lastInstance
    /\ workers' = [workers EXCEPT ![w].pc = "ended", ![w].raised = where,
                                   ![w].surfaced = Handling(workers[w].task, where),
                                   ![w].passed = PassedSignature(workers[w].task)]
    /\ \E files \in {cache, cache \cup {Signature(gameVersion, mods_enabled)}} :
           /\ (files # cache) => (workers[w].task = "patchAndLaunch" /\ where = "none")
           /\ cache' = files
    /\ lastCall' = [NoCall EXCEPT !.op = workers[w].task, !.arg = where]
    /\ UNCHANGED <<fsVars, dbVars, scanVars, granted, gameVersion, ui,
                   launchButton_default_text, window, can_quit, background_finished,
                   background_thread, background_counter, pendingTicks>>

\* the worker thread: the finally block of _wrapper, then the thread ends
WrapperFinally(w) ==
    /\ w \in 1..Len(workers)
    /\ workers[w].pc = "ended"
    /\ FinallyRuns(workers[w].raised)
    /\ workers' = [workers EXCEPT ![w].pc = "done"]
    /\ background_finished' = TRUE
    /\ lastCall' = [NoCall EXCEPT !.op = "_wrapper", !.arg = workers[w].raised]
    /\ UNCHANGED <<fsVars, dbVars, scanVars, granted, gameVersion, uiVars, can_quit,
                   background_thread, background_counter, pendingTicks>>

\* s without its k-th element
Without(s, k) == [j \in 1..(Len(s) - 1) |-> IF j < k THEN s[j] ELSE s[j + 1]]

\* Window.update_background_state, the callback scheduled with after(): when
\* the flag is set it joins the thread (which waits until the thread ended),
\* enables the controls and runs check_quick_launch (which raises after
\* enable_UI when no game was located); else it schedules itself again
UpdateBackgroundState ==
    /\ window = "open"
    /\ pendingTicks > 0
    /\ background_counter' = (background_counter + 1) % 5
    /\ IF background_finished
       THEN /\ background_thread # 0
            /\ workers[background_thread].pc = "done"
            /\ workers' = Without(workers, background_thread)
            /\ background_thread' = 0
            /\ can_quit' = enable_UI.can_quit
            /\ IF lastInstance
               THEN LET c == CheckQuickLaunch(gameVersion, mods_enabled, cache)
                    IN  /\ ui' = [enable_UI.ui EXCEPT !["quickLaunchClear"] = c.clear]
                        /\ launchButton_default_text' = c.text
               ELSE /\ ui' = enable_UI.ui
                    /\ UNCHANGED launchButton_default_text
            /\ pendingTicks' = pendingTicks - 1
            /\ lastCall' = [op |-> "update_background_state", mod |-> 0, arg |-> "finished",
                            exc |-> IF lastInstance THEN "none" ELSE "Exception",
                            ret |-> <<>>,
                            task |-> workers[background_thread].task,
                            raised |-> workers[background_thread].raised]
            /\ UNCHANGED background_finished
       ELSE /\ lastCall' = [NoCall EXCEPT !.op = "update_background_state",
                                          !.arg = "rescheduled",
                                          !.ret = <<background_counter>>]
            /\ UNCHANGED <<ui, launchButton_default_text, can_quit, background_finished,
                           background_thread, pendingTicks, workers>>
    /\ UNCHANGED <<fsVars, dbVars, scanVars, granted, gameVersion, cache, window>>

\* Window.quit, the command of quitButton and the WM_DELETE_WINDOW handler
Quit(via) ==
    /\ IF can_quit
       THEN /\ window' = "destroyed"
            /\ lastCall' = [NoCall EXCEPT !.op = "quit", !.arg = "destroyed", !.ret = <<via>>]
       ELSE /\ window' = window
            /\ lastCall' = [NoCall EXCEPT !.op = "quit", !.arg = "refused", !.ret = <<via>>]
    /\ UNCHANGED <<fsVars, dbVars, scanVars, granted, gameVersion, ui,
                   launchButton_default_text, cache, runVars>>

\* Window.openModFolder: self.modPath[0] raises before any game was located
OpenModFolder ==
    /\ lastCall' = [NoCall EXCEPT !.op = "openModFolder",
                                  !.exc = IF lastInstance THEN "none" ELSE "Exception"]
    /\ UNCHANGED <<fsVars, dbVars, scanVars, granted, appVars>>

\* Window.clear_quick_launch: unlink the file of the current signature (any
\* error passed over), then check_quick_launch
ClearQuickLaunch ==
    /\ IF lastInstance
       THEN /\ cache' = cache \ {Signature(gameVersion, mods_enabled)}
            /\ LET c == CheckQuickLaunch(gameVersion, mods_enabled, cache')
               IN  /\ ui' = [ui EXCEPT !["quickLaunchClear"] = c.clear]
                   /\ launchButton_default_text' = c.text
            /\ lastCall' = [NoCall EXCEPT !.op = "clear_quick_launch"]
       ELSE /\ lastCall' = [NoCall EXCEPT !.op = "clear_quick_launch", !.exc = "Exception"]
            /\ UNCHANGED <<ui, launchButton_default_text, cache>>
    /\ UNCHANGED <<fsVars, dbVars, scanVars, granted, gameVersion, window, runVars>>

\* the two controls whose command scans: "Find game..." (browseForSpacehaven,
\* then locateSpacehaven) and "Refresh Mods" (refreshModList, which only shows
\* an error before any game was located)
ScanControls == {"spacehavenBrowse", "modListRefresh"}

ScanButton(control, version) ==
    /\ Clickable(control)
    /\ IF control = "modListRefresh" /\ ~lastInstance
       THEN /\ lastCall' = [NoCall EXCEPT !.op = "refreshModList", !.arg = "Spacehaven not found"]
            /\ UNCHANGED <<fsVars, dbVars, scanVars, granted, appVars>>
       ELSE Rescan(IF control = "spacehavenBrowse" THEN "locateSpacehaven" ELSE "refreshModList",
                   IF control = "spacehavenBrowse" THEN version ELSE gameVersion,
                   IF control = "spacehavenBrowse" THEN <<"mods">> ELSE path_list)

\* the directories whose disabled.txt a scan can read
MarkerPaths(ls) ==
    UNION {{Path(r, ls[r][i]) : i \in {j \in 1..Len(ls[r]) : IsCandidate(Catalog[ls[r][j]])}} :
           r \in Roots}

\* the state when the program starts, the mods root holding entries of S:
\* nothing constructed yet
Start(S) ==
    /\ listing \in [Roots -> Listings(S, MaxEntries)]
    /\ marker \in SUBSET MarkerPaths(listing)
    /\ lastInstance = FALSE
    /\ path_list = <<>>
    /\ mods = <<>>
    /\ Prefixes = EmptyDict
    /\ scanLog = <<>>
    /\ scanState = "never"
    /\ granted = <<>>
    /\ lastCall = NoCall
    /\ gameVersion = NoGameInfo
    /\ WindowConstructed

\* the folders of the mods a user toggles
ToggleFolders == {"beta", "gamma", "twin"}

\* the registry's life: construction, scans, toggles
Init == Start(ToggleFolders)

Next ==
    \/ \E pl \in PathLists : NewDatabase(pl)
    \/ LocateMods
    \/ \E i \in 1..Len(mods) : Enable(i)
    \/ \E i \in 1..Len(mods) : Disable(i)
    \/ \E p \in marker : RemoveMarker(p)

Spec == Init /\ [][Next]_vars

\* the scans of every kind of mods folder
ScanInit == Start(FolderIds)

ScanNext ==
    \/ \E pl \in PathLists : NewDatabase(pl)
    \/ LocateMods

ScanSpec == ScanInit /\ [][ScanNext]_vars

\* the folders of the mods that register, with and without a prefix
PrefixFolders == {"alpha", "beta", "gamma", "twin", "noloader"}

\* the scans of mods folders whose every mod registers
PrefixInit == Start(PrefixFolders)

PrefixSpec == PrefixInit /\ [][ScanNext]_vars

\* the registry read through its accessors, before and after scans
AccessInit == Start(ToggleFolders)

AccessNext ==
    \/ \E pl \in PathLists : NewDatabase(pl)
    \/ LocateMods
    \/ Access("getActiveMods", <<>>, GetActiveMods)
    \/ Access("getInactiveMods", <<>>, GetInactiveMods)
    \/ Access("getRegisteredMods", <<>>, GetRegisteredMods)
    \/ \E p \in Roots \X ToggleFolders : Access("getMod", p, GetMod(p))

AccessSpec == AccessInit /\ [][AccessNext]_vars

\* the folders of the mods whose signature is computed
SigFolders == {"gamma", "twin", "clone"}

\* the signature over the front-end's life: locate the game (again), toggle,
\* allocate, compute
SigInit == Start(SigFolders)

SigNext ==
    \/ \E version \in GameVersions :
          Clickable("spacehavenBrowse") /\ LocateSpacehaven(version, <<"mods">>)
    \/ \E i \in 1..Len(mods) : Clickable("modEnableDisable") /\ ToggleCurrentMod(i)
    \/ \E i \in 1..Len(mods) : GetAutomaticID(i, 0)
    \/ CurrentModsSignature

SigSpec == SigInit /\ [][SigNext]_vars

\* the folders of the mods present while tasks run
RunFolders == {"gamma"}

\* the front-end with its background task runner: the commands of the
\* controls, the close button of the window, the poll tick, the worker thread
RunnerInit == Start(RunFolders)

RunnerNext ==
    \/ \E control \in ScanControls, version \in GameVersions : ScanButton(control, version)
    \/ \E i \in 1..Len(mods) : Clickable("modEnableDisable") /\ ToggleCurrentMod(i)
    \/ Clickable("launchButton") /\ LaunchWrapper
    \/ Clickable("extractButton") /\ StartButton("extract_assets")
    \/ Clickable("annotateButton") /\ StartButton("annotate")
    \/ Clickable("modListOpenFolder") /\ OpenModFolder
    \/ Clickable("quickLaunchClear") /\ ClearQuickLaunch
    \/ Clickable("quitButton") /\ Quit("quitButton")
    \/ window = "open" /\ Quit("WM_DELETE_WINDOW")
    \/ UpdateBackgroundState
    \/ \E w \in 1..Len(workers), where \in {"none", "inside_try", "outside_try"} :
          TaskEnds(w, where)
    \/ \E w \in 1..Len(workers) : WrapperFinally(w)

RunnerSpec == RunnerInit /\ [][RunnerNext]_vars

\* the same under fair scheduling: tkinter's main loop runs every callback
\* scheduled with after(), and a worker thread that left task() gets to run
\* its finally block
RunnerFairSpec ==
    /\ RunnerSpec
    /\ WF_vars(UpdateBackgroundState)
    /\ WF_vars(\E w \in 1..Len(workers) : WrapperFinally(w))

\* the registry toggled through enable() and disable() alone and read
\* through its active and inactive accessors: nothing else touches the
\* marker files
MarkerInit == Start(ToggleFolders)

MarkerNext ==
    \/ \E pl \in PathLists : NewDatabase(pl)
    \/ LocateMods
    \/ \E i \in 1..Len(mods) : Enable(i)
    \/ \E i \in 1..Len(mods) : Disable(i)
    \/ Access("getActiveMods", <<>>, GetActiveMods)
    \/ Access("getInactiveMods", <<>>, GetInactiveMods)

MarkerSpec == MarkerInit /\ [][MarkerNext]_vars

\* the folders of the mods that are scanned again after use
RebuildFolders == {"alpha", "gamma"}

\* scans of a registry in use: toggles, markers removed by hand and ID
\* allocations between one scan and the next
RebuildInit == Start(RebuildFolders)

RebuildNext ==
    \/ \E pl \in PathLists : NewDatabase(pl)
    \/ LocateMods
    \/ \E i \in 1..Len(mods) : Enable(i)
    \/ \E i \in 1..Len(mods) : Disable(i)
    \/ \E p \in marker : RemoveMarker(p)
    \/ \E i \in 1..Len(mods) : GetAutomaticID(i, 0)

RebuildSpec == RebuildInit /\ [][RebuildNext]_vars

\* the folders of the mods whose IDs are allocated
AllocFolders == {"alpha", "gamma"}

\* ID allocation: a database constructed over one root, none disabled
AllocInit ==
    /\ listing \in [Roots -> Listings(AllocFolders, MaxEntries)]
    /\ marker = {}
    /\ lastInstance = TRUE
    /\ path_list = <<"mods">>
    /\ mods = <<>>
    /\ Prefixes = EmptyDict
    /\ scanLog = <<>>
    /\ scanState = "never"
    /\ granted = <<>>
    /\ lastCall = [NoCall EXCEPT !.op = "ModDatabase"]
    /\ gameVersion = V_GAME
    /\ WindowConstructed

AllocNext ==
    \/ LocateMods
    \/ \E i \in 1..Len(mods), internalID \in LocalIDs : GetAutomaticID(i, internalID)

AllocSpec == AllocInit /\ [][AllocNext]_vars

\* ------------------------------------------------------------ properties
\* the local IDs an entity has been granted so far
GrantedLocals(i) == {granted[i][k][1] : k \in 1..Len(granted[i])}

\* the results an entity has been handed so far
GrantedResults(i) == {granted[i][k][2] : k \in 1..Len(granted[i])}

\* the latest call was getAutomaticID
AllocCalled == lastCall.op = "getAutomaticID"

\* C1: getAutomaticID with a localID of 1000 or more, also one that an earlier
\* failed call already passed, fails with the out-of-range error (RuntimeError)
\* and returns no ID.
C1_OutOfRangeAlwaysFails ==
    (AllocCalled /\ lastCall.arg >= 1000) =>
        (lastCall.exc = "RuntimeError" /\ lastCall.ret = <<>>)

\* C2: two registered mods with distinct prefixes are never handed the same
\* global ID.
C2_DistinctPrefixesNeverCollide ==
    \A i, j \in 1..Len(mods) :
        mods[i].prefix # mods[j].prefix =>
            GrantedResults(i) \cap GrantedResults(j) = {}

\* C3: a call with a localID this entity was already granted fails with the
\* double-allocation error (ValueError) and grants nothing; the grants of one
\* entity are pairwise distinct in local ID and in result.
C3_DuplicateFails ==
    [][/\ (lastCall'.op = "getAutomaticID" /\ Len(granted) = Len(granted')
           /\ lastCall'.mod \in 1..Len(granted)
           /\ lastCall'.arg \in GrantedLocals(lastCall'.mod))
          => (lastCall'.exc = "ValueError" /\ granted' = granted)
       /\ \A i \in 1..Len(granted') : \A a, b \in 1..Len(granted'[i]) :
             a # b => (granted'[i][a][1] # granted'[i][b][1]
                       /\ granted'[i][a][2] # granted'[i][b][2])]_vars

\* C3 witness: a second call with a granted localID has just been refused
C3_Witness ==
    /\ AllocCalled
    /\ lastCall.exc = "ValueError"
    /\ lastCall.arg \in GrantedLocals(lastCall.mod)
    /\ Len(granted[lastCall.mod]) = 2

\* C4: a call with a localID in 0..999 that the entity was not granted before
\* records the localID in the ledger and returns the decimal text of
\* prefix * 1000 + localID.
C4_FreshInRangeReturnsGlobalID ==
    [][(lastCall'.op = "getAutomaticID" /\ lastCall'.mod \in 1..Len(granted)
        /\ lastCall'.arg \in 0..999
        /\ lastCall'.arg \notin GrantedLocals(lastCall'.mod))
       => LET i == lastCall'.mod
              n == lastCall'.arg
          IN  /\ lastCall'.exc = "none"
              /\ PyInt(lastCall'.ret).ok
              /\ PyInt(lastCall'.ret).val = mods[i].prefix * 1000 + n
              /\ lastCall'.ret = PyStr(mods[i].prefix * 1000 + n)
              /\ \E k \in 1..Len(mods'[i].mappedIDs) : mods'[i].mappedIDs[k] = n
              /\ granted'[i] = Append(granted[i], <<n, lastCall'.ret>>)]_vars

\* C4 witness: a mod with a non-zero prefix has just been handed the ID for 999
C4_Witness ==
    /\ AllocCalled
    /\ lastCall.exc = "none"
    /\ lastCall.arg = 999
    /\ mods[lastCall.mod].prefix = 3
    /\ lastCall.ret = <<51, 57, 57, 57>>

\* the latest call was enable or disable on a registered mod
ToggleCalled == lastCall.op \in {"enable", "disable"}

\* C5: after enable() or disable() on a mod, whatever the state before, the
\* marker file is present exactly if the call was disable() and the enabled
\* flag is true exactly if the call was enable().
C5_MarkerFollowsLastCall ==
    ToggleCalled =>
        LET m == mods[lastCall.mod]
        IN  /\ (m.path \in marker) <=> (lastCall.op = "disable")
            /\ m.enabled <=> (lastCall.op = "enable")

\* C6: enable() ends with the marker absent and enabled = true, also when the
\* marker was absent before the call, and a second enable() changes nothing.
C6_EnableEndsEnabled ==
    [][lastCall'.op = "enable" =>
          /\ mods'[lastCall'.mod].path \notin marker'
          /\ mods'[lastCall'.mod].enabled
          /\ lastCall = lastCall' => (mods' = mods /\ marker' = marker)]_vars

\* the latest call was a scan
Scanned == lastCall.op = "locateMods"

\* the directory entries of the latest scan, in the order the scan met them
Encounter == Walk(path_list, listing)

\* the positions of Encounter holding path p
Positions(p) == {a \in 1..Len(Encounter) : Encounter[a] = p}

\* the registered entities with path p
Registered(p) == {i \in 1..Len(mods) : mods[i].path = p}

\* C7: after every scan the list is in non-decreasing order of name (code
\* points), and entities of equal name keep the order the scan met them in.
C7_SortedAfterScan ==
    Scanned =>
        \A i, j \in 1..Len(mods) :
            i < j =>
                /\ ~LexLess(mods[j].name, mods[i].name)
                /\ mods[i].name = mods[j].name =>
                       \E a \in Positions(mods[i].path), b \in Positions(mods[j].path) : a < b

\* C8: a scan registers nothing for an entry whose name contains
\* "spacehaven", for a plain file, or for a directory without manifest, and
\* registers exactly one entity for every other directory entry it is given.
C8_ExactlyTheCandidates ==
    Scanned =>
        /\ \A i \in 1..Len(mods) : IsCandidate(Catalog[mods[i].path[2]])
        /\ \A a \in 1..Len(Encounter) :
              IsCandidate(Catalog[Encounter[a][2]]) =>
                  Cardinality(Registered(Encounter[a])) = Cardinality(Positions(Encounter[a]))

\* a manifest whose name or description is absent or has no text
Malformed(entry) ==
    /\ IsCandidate(entry)
    /\ entry.xml.wellformed
    /\ ~CanSanitize(entry.xml.name) \/ ~CanSanitize(entry.xml.description)

\* the broken state: failure marker at the end of the name, parse-error text
Broken(m) ==
    /\ Len(m.name) >= Len(FAIL_MARK)
    /\ SubSeq(m.name, Len(m.name) - Len(FAIL_MARK) + 1, Len(m.name)) = FAIL_MARK
    /\ m.description.kind = "parse_error"

\* C9: a directory with a malformed manifest is registered in the broken
\* state, and the scan completes and registers every other candidate too.
C9_MalformedIsRegisteredBroken ==
    (Scanned /\ \E a \in 1..Len(Encounter) : Malformed(Catalog[Encounter[a][2]])) =>
        /\ scanState = "done"
        /\ \A a \in 1..Len(Encounter) :
              IsCandidate(Catalog[Encounter[a][2]]) =>
                  /\ Registered(Encounter[a]) # {}
                  /\ Malformed(Catalog[Encounter[a][2]]) =>
                         \A i \in Registered(Encounter[a]) : Broken(mods[i])

\* the entities the latest scan constructed, in the order it met them: every
\* candidate of a completed scan; of an aborted scan the list, left unsorted
Ents ==
    IF scanState = "done"
    THEN LET c == SelectSeq(Encounter, LAMBDA p : IsCandidate(Catalog[p[2]]))
         IN  [k \in 1..Len(c) |-> ModTable[c[k], c[k] \in marker].mod]
    ELSE mods

\* the indices of E, in order, that satisfy W
Indices(E, W(_, _)) == SelectSeq([k \in 1..Len(E) |-> k], LAMBDA k : W(E, k))

\* an earlier entity of the pass, enabled or not, declared the same prefix
ClaimedEarlier(E, k) ==
    E[k].prefix # 0 /\ \E j \in 1..(k - 1) : E[j].prefix = E[k].prefix

\* an earlier entity of the pass that was enabled declared the same prefix
ClaimedEarlierByEnabled(E, k) ==
    E[k].prefix # 0 /\ \E j \in 1..(k - 1) : E[j].prefix = E[k].prefix /\ E[j].enabled

\* the warnings of a pass in which exactly the entities satisfying W warn
WarningsOf(E, W(_, _)) ==
    LET w == Indices(E, W)
    IN  [n \in 1..Len(w) |-> [prefix |-> E[w[n]].prefix, title |-> Title(E[w[n]])]]

\* the prefix map of a pass in which the entities satisfying W leave the map
\* alone and every other entity with a prefix records its enabled flag
ClaimsOf(E, W(_, _)) ==
    LET claimants(p) == {k \in 1..Len(E) : E[k].prefix = p /\ ~W(E, k)}
        last(p) == CHOOSE k \in claimants(p) : \A j \in claimants(p) : j <= k
    IN  [p \in {E[k].prefix : k \in {j \in 1..Len(E) : E[j].prefix # 0}} |->
            E[last(p)].enabled]

\* every entity of the pass is in the list, as often as the pass met it
AllRegistered(E) ==
    /\ Len(mods) = Len(E)
    /\ \A k \in 1..Len(E) :
          Cardinality({i \in 1..Len(mods) : mods[i] = E[k]})
              = Cardinality({j \in 1..Len(E) : E[j] = E[k]})

\* C10 as stated: an entity whose non-zero prefix an earlier entity of the
\* pass claimed, enabled or disabled, logs a warning and leaves the map entry
\* to the first claimant; any other entity with a prefix records its enabled
\* flag; all are registered.
C10_WarnOnAnyEarlierClaim ==
    Scanned =>
        /\ scanLog = WarningsOf(Ents, ClaimedEarlier)
        /\ Prefixes = ClaimsOf(Ents, ClaimedEarlier)
        /\ AllRegistered(Ents)

\* C10 amended: an entity whose non-zero prefix an earlier entity of the pass
\* that was enabled claimed logs a warning and leaves the map entry alone; any
\* other entity with a prefix, also one whose prefix only disabled entities
\* claimed before, records its enabled flag over the entry; all are registered.
C10_WarnOnEnabledEarlierClaim ==
    Scanned =>
        /\ scanLog = WarningsOf(Ents, ClaimedEarlierByEnabled)
        /\ Prefixes = ClaimsOf(Ents, ClaimedEarlierByEnabled)
        /\ AllRegistered(Ents)

\* C10 witness: a completed scan in which one entity took over the prefix of
\* an earlier, disabled entity without warning and later entities warned
C10_Witness ==
    /\ Scanned
    /\ scanState = "done"
    /\ scanLog # <<>>
    /\ \E k \in 1..Len(Ents) :
          /\ ClaimedEarlier(Ents, k)
          /\ ~ClaimedEarlierByEnabled(Ents, k)
          /\ Ents[k].enabled
          /\ Prefixes[Ents[k].prefix]

\* the latest call was one of the registry's accessors
AccessCalled == lastCall.op \in Accessors

\* what the accessor of the latest call returns from the registry as it is
AccessResult ==
    CASE lastCall.op = "getActiveMods" -> SelectSeq(mods, LAMBDA m : m.enabled)
      [] lastCall.op = "getInactiveMods" -> SelectSeq(mods, LAMBDA m : ~m.enabled)
      [] lastCall.op = "getRegisteredMods" -> mods
      [] lastCall.op = "getMod" ->
            IF \E i \in 1..Len(mods) : mods[i].path = lastCall.arg
            THEN <<mods[CHOOSE i \in 1..Len(mods) :
                          /\ mods[i].path = lastCall.arg
                          /\ \A j \in 1..(i - 1) : mods[j].path # lastCall.arg]>>
            ELSE <<>>

SignatureCalled == lastCall.op = "current_mods_signature"

\* the registries a scan of the mods root leaves, for every listing of the
\* signature's folders and every set of marker files
ScannedRegistries ==
    UNION {{ScanResult(<<"mods">>, ls, mk).mods : mk \in SUBSET MarkerPaths(ls)} :
           ls \in [Roots -> Listings(SigFolders, MaxEntries)]}

\* the paths of the enabled mods of a registry
EnabledPaths(registry) == {registry[i].path : i \in {j \in 1..Len(registry) : registry[j].enabled}}

\* the paths of the disabled mods of a registry
DisabledPaths(registry) == {registry[i].path : i \in {j \in 1..Len(registry) : ~registry[j].enabled}}

\* the prefixes of the mods of a registry
PrefixesOf(registry) == {registry[i].prefix : i \in 1..Len(registry)}

\* the computations of the signature right after a scan, for every game
\* version and scanned registry: the inputs (game version, ordered (name,
\* version) pairs of the enabled mods), the result, and what else the state held
ScannedComputations ==
    {[version |-> v,
      pairs |-> NameVersionPairs(SelectSeq(registry, LAMBDA m : m.enabled)),
      ret |-> Signature(v, SelectSeq(registry, LAMBDA m : m.enabled)),
      enabledPaths |-> EnabledPaths(registry),
      disabledPaths |-> DisabledPaths(registry),
      prefixes |-> PrefixesOf(registry)] : v \in GameVersions, registry \in ScannedRegistries}

\* the computations whose inputs are those of the current state
SameInputs ==
    LET pairs == NameVersionPairs(GetActiveMods)
    IN  {o \in ScannedComputations : o.version = gameVersion /\ o.pairs = pairs}

\* C12: the signature computed in a reachable state equals the signature
\* computed in any other state with the same game version and the same ordered
\* (name, version) pairs of enabled mods, whatever else differs between them.
C12_SignatureIsFunctionOfInputs ==
    SignatureCalled => \A o \in SameInputs : lastCall.ret = o.ret

\* C12 witness: a signature was computed in a state that shares its inputs with
\* a state whose enabled mod sits at another path with another prefix, whose
\* disabled mods differ and whose ledgers are empty while one here is not
C12_Witness ==
    /\ SignatureCalled
    /\ GetActiveMods # <<>>
    /\ \E i \in 1..Len(mods) : mods[i].mappedIDs # <<>>
    /\ \E o \in SameInputs :
          /\ o.enabledPaths \cap EnabledPaths(mods) = {}
          /\ o.disabledPaths # DisabledPaths(mods)
          /\ o.prefixes # PrefixesOf(mods)
          /\ lastCall.ret = o.ret

\* version strings a manifest may declare: none, "1.0", "2.0", "1.0b", "1.0B",
\* "VERSION_UNKNOWN"
VersionTexts ==
    {<<>>, <<49, 46, 48>>, <<50, 46, 48>>, <<49, 46, 48, 98>>, <<49, 46, 48, 66>>,
     VERSION_UNKNOWN}

\* the registry with the enabled flag of its i-th mod flipped
Toggled(registry, i) == [registry EXCEPT ![i].enabled = ~registry[i].enabled]

\* the active mods with the k-th one declaring version v
Redeclared(active, k, v) == [active EXCEPT ![k].version = v]

\* what the text holds for a declared version: the placeholder when none is
\* declared, lower-cased like the whole text
VersionToken(v) == IF v = <<>> THEN Lower(VERSION_UNKNOWN) ELSE Lower(v)

Located == lastCall.op = "locateSpacehaven"

\* the orders in which os.listdir may return the entries of every root
Reorderings(ls) ==
    {ls2 \in [Roots -> Listings(SigFolders, MaxEntries)] :
        \A r \in Roots : /\ Len(ls2[r]) = Len(ls[r])
                         /\ {ls2[r][i] : i \in 1..Len(ls2[r])} = {ls[r][i] : i \in 1..Len(ls[r])}}

\* the active mods a scan registers when the roots list their entries as ls2
ActiveAfterScan(ls2) ==
    SelectSeq(ScanResult(path_list, ls2, marker).mods, LAMBDA m : m.enabled)

\* C14: right after a scan the token list is the literal, the game version,
\* then name and version-or-"VERSION_UNKNOWN" of each enabled mod, the mods in
\* non-decreasing order of name; and the signature is the one a scan of the
\* same directories and markers gives for every other order of enumeration.
C14_SameSignatureForEveryScanOrder ==
    Located =>
        /\ LET active == GetActiveMods
               tokens == SignatureTokens(gameVersion, mods_enabled)
           IN  /\ Len(tokens) = 2 + 2 * Len(active)
               /\ tokens[1] = SignatureLiteral
               /\ tokens[2] = gameVersion
               /\ \A k \in 1..Len(active) :
                     /\ tokens[2 * k + 1] = active[k].name
                     /\ tokens[2 * k + 2] =
                            IF active[k].version = <<>> THEN VERSION_UNKNOWN
                            ELSE active[k].version
               /\ \A a, b \in 1..Len(active) : a < b => ~LexLess(active[b].name, active[a].name)
        /\ \A ls2 \in Reorderings(listing) :
              Signature(gameVersion, ActiveAfterScan(ls2)) = Signature(gameVersion, mods_enabled)

\* ---------------------------------------------------------------- C15
\* the worker threads started and not yet joined
Outstanding == Len(workers)

\* C15: in every reachable state of the runner at most one worker thread was
\* started and not yet joined, and background_thread refers to it exactly
\* while it is outstanding: no start happens while a task is outstanding.
C15_AtMostOneWorker ==
    /\ Outstanding <= 1
    /\ background_thread = Outstanding

\* a launch started a worker after an earlier patch-and-launch was joined
C15_Witness ==
    /\ lastCall.op = "launch_wrapper"
    /\ lastCall.exc = "none"
    /\ lastCall.arg = "quick_launch"
    /\ Outstanding = 1
    /\ workers[1].pc = "running"

\* ---------------------------------------------------------------- C16
QuitCalled == lastCall.op = "quit"

\* C16: from the start of a background task until the tick that observes its
\* completion every control is disabled, the window is still there, and a
\* quit request (by button or by closing the window) is refused.
C16_DisabledAndQuitRefusedWhileOutstanding ==
    background_thread # 0 =>
        /\ \A c \in Controls : ui[c] = DISABLED
        /\ ~can_quit
        /\ window = "open"
        /\ QuitCalled => lastCall.arg = "refused"

\* closing the window was refused after the worker had finished but before
\* the tick observed it
C16_Witness ==
    /\ background_thread # 0
    /\ workers[background_thread].pc = "done"
    /\ background_finished
    /\ QuitCalled
    /\ lastCall.arg = "refused"
    /\ lastCall.ret = <<"WM_DELETE_WINDOW">>

\* ---------------------------------------------------------------- C17
\* the task body of some worker terminated, by returning or by raising
TaskTerminated == \E w \in 1..Len(workers) : workers[w].pc = "ended"

\* the tick that observed the completion has run: the controls are enabled
\* again, quitting is allowed, and check_quick_launch was called (its result
\* is on the controls whenever a game is located, as it raises otherwise)
Restored ==
    /\ lastCall.op = "update_background_state"
    /\ lastCall.arg = "finished"
    /\ background_thread = 0
    /\ can_quit
    /\ \A c \in Controls \ {"quickLaunchClear"} : ui[c] = NORMAL
    /\ IF lastInstance
       THEN LET c == CheckQuickLaunch(gameVersion, mods_enabled, cache)
            IN  /\ ui["quickLaunchClear"] = c.clear
                /\ launchButton_default_text = c.text
                /\ lastCall.exc = "none"
       ELSE /\ ui["quickLaunchClear"] = NORMAL
            /\ lastCall.exc = "Exception"

\* C17: once the task body terminates, returning or raising, the finished
\* flag becomes true and, with the tick scheduled fairly, the controls are
\* re-enabled, quitting is allowed and the quick-launch check is run again;
\* exactly one tick stays scheduled for as long as the task is outstanding.
C17_FinishedThenRestored ==
    /\ [](pendingTicks = background_thread)
    /\ TaskTerminated ~> background_finished
    /\ TaskTerminated ~> Restored

\* the tick restored the controls after a task that raised outside any try
C17_Witness ==
    /\ Restored
    /\ lastCall.raised = "outside_try"
    /\ lastInstance

\* ---------------------------------------------------------------- C18
\* C18: whatever the kind of task, an error raised on the worker thread is
\* surfaced to the operator as a message.
C18_EveryTaskSurfacesItsError ==
    \A w \in 1..Len(workers) :
        workers[w].raised # "none" => workers[w].surfaced = "messagebox"

\* ---------------------------------------------------------------- C19
\* the paths whose marker file a scan of the current file system finds
MarkedAtScan(path) == path \in marker

\* C19: right after a scan the registry holds only entities the scan built
\* from the directory entries it met, none more often than it met its
\* directory, each with an empty ledger and a flag equal to the absence of
\* its marker file; the prefix map holds only prefixes of these entities,
\* each with the flag of one of them.  Ledgers, flags and claims from before
\* the scan are gone.
C19_ScanRebuildsEverything ==
    Scanned =>
        /\ \A i \in 1..Len(mods) :
              /\ Positions(mods[i].path) # {}
              /\ Cardinality(Registered(mods[i].path)) <= Cardinality(Positions(mods[i].path))
              /\ mods[i].mappedIDs = <<>>
              /\ granted[i] = <<>>
              /\ mods[i].enabled = ~MarkedAtScan(mods[i].path)
        /\ \A p \in DOMAIN Prefixes :
              \E i \in 1..Len(mods) : mods[i].prefix = p /\ mods[i].enabled = Prefixes[p]

\* a scan that dropped a ledger entry, a flag that disagreed with the marker
\* file and a claim recorded with another value
C19_Witness ==
    /\ Scanned
    /\ lastCall.discarded = {"ledger", "flag", "claim"}
    /\ mods # <<>>

\* ---------------------------------------------------------------- C20
\* the registered entities that declare prefix p
Holders(p) == {i \in 1..Len(mods) : mods[i].prefix = p}

\* C20: in every state after a scan, also after calls of enable() and
\* disable(), the value of each prefix-map entry is the current enabled flag
\* of a registered mod holding that prefix.
C20_PrefixValueIsCurrentFlag ==
    scanState # "never" =>
        \A p \in DOMAIN Prefixes : \E i \in Holders(p) : mods[i].enabled = Prefixes[p]

\* ---------------------------------------------------------------- C21
\* C21: in every state of the registry no two registered entities have the
\* same installation path, whatever list of roots the scan was given, so
\* that a path identifies at most one entity.
C21_PathsAreUnique ==
    \A i, j \in 1..Len(mods) : mods[i].path = mods[j].path => i = j

\* ---------------------------------------------------------------- C22
\* the local IDs in the ledger of the i-th registered mod
Ledger(i) == {mods[i].mappedIDs[k] : k \in 1..Len(mods[i].mappedIDs)}

\* C22: the ledger of every entity holds exactly the local IDs for which a
\* call returned a global ID; a call that fails adds nothing to it.
C22_LedgerHoldsExactlyTheGranted ==
    \A i \in 1..Len(mods) : Ledger(i) = GrantedLocals(i)

\* ---------------------------------------------------------------- C23
\* entity j and its marker file are as they were before the step
Untouched(j) ==
    /\ mods'[j] = mods[j]
    /\ granted'[j] = granted[j]
    /\ (mods[j].path \in marker') <=> (mods[j].path \in marker)

\* C23: enable() or disable() on one registered mod leaves every other
\* entity's flag, marker file and ledger as they were, and the registry's
\* membership and order too, also when mods share a prefix.
C23_ToggleTouchesOnlyItsMod ==
    [][ToggleCalled' =>
          /\ Len(mods') = Len(mods)
          /\ \A j \in 1..Len(mods) :
                /\ mods'[j].path = mods[j].path
                /\ j # lastCall'.mod => Untouched(j)]_vars

\* ---------------------------------------------------------------- C24
\* a candidate whose manifest parses and has text for name and description
HasRequiredFields(entry) ==
    /\ IsCandidate(entry)
    /\ entry.xml.wellformed
    /\ CanSanitize(entry.xml.name)
    /\ CanSanitize(entry.xml.description)

\* the manifest declares no modid, or one that is not a number
NoNumericModid(entry) == ~CanSanitize(entry.xml.modid) \/ ~PyInt(entry.xml.modid.text).ok

\* C24: a scan that meets only candidates whose manifests have text for name
\* and description completes, and every such candidate is registered, not in
\* the broken state, whatever its optional fields; without a numeric modid
\* its prefix is 0.
C24_RequiredFieldsSuffice ==
    Scanned =>
        /\ (\A a \in 1..Len(Encounter) :
               IsCandidate(Catalog[Encounter[a][2]]) => HasRequiredFields(Catalog[Encounter[a][2]]))
           => scanState = "done"
        /\ scanState = "done" =>
              \A a \in 1..Len(Encounter) :
                  HasRequiredFields(Catalog[Encounter[a][2]]) =>
                      /\ Registered(Encounter[a]) # {}
                      /\ \A i \in Registered(Encounter[a]) :
                            /\ ~Broken(mods[i])
                            /\ NoNumericModid(Catalog[Encounter[a][2]]) => mods[i].prefix = 0

\* ---------------------------------------------------------------- C25
\* the registered mods whose disabled.txt is absent (present), in registry
\* order
Unmarked == SelectSeq(mods, LAMBDA m : m.path \notin marker)
Marked == SelectSeq(mods, LAMBDA m : m.path \in marker)

\* C25: in every state reached from a scan by enable() and disable() alone,
\* the flag of each registered mod is true exactly when its marker file is
\* absent, and the active and the inactive accessor return the mods without
\* and with a marker file, each in registry order.
C25_FlagFollowsMarker ==
    scanState # "never" =>
        /\ \A i \in 1..Len(mods) : mods[i].enabled <=> mods[i].path \notin marker
        /\ (lastCall.op = "getActiveMods" /\ lastCall.exc = "none") => lastCall.ret = Unmarked
        /\ (lastCall.op = "getInactiveMods" /\ lastCall.exc = "none") => lastCall.ret = Marked

\* ---------------------------------------------------------------- C26
LaunchRequested == lastCall.op = "launch_wrapper"

\* some registered mod is enabled
SomeModEnabled == \E i \in 1..Len(mods) : mods[i].enabled

\* C26: a launch request with a registry present starts exactly one task:
\* the unpatched game when no mod is enabled, the quick launch when a mod is
\* enabled and the cache holds the file of the signature computed for the
\* request, patch-and-launch otherwise; and the signature a launch task has
\* passed to the external step is the one the request was decided with.
\* (Without a registry the request fails and starts nothing.)
C26_OneTaskAndItsSignature ==
    /\ (LaunchRequested /\ lastCall.exc = "none") =>
          /\ Len(workers) = 1
          /\ workers[1].pc = "running"
          /\ workers[1].task = lastCall.arg
          /\ workers[1].task = "launch_vanilla" <=> ~SomeModEnabled
          /\ workers[1].task = "quick_launch" <=>
                (SomeModEnabled /\ workers[1].decided \in cache)
          /\ workers[1].task = "patchAndLaunch" <=>
                (SomeModEnabled /\ workers[1].decided \notin cache)
    /\ (LaunchRequested /\ lastCall.exc # "none") => (~lastInstance /\ workers = <<>>)
    /\ \A w \in 1..Len(workers) :
          (workers[w].pc # "running" /\ workers[w].task \in {"quick_launch", "patchAndLaunch"})
              => (workers[w].passed = workers[w].decided /\ workers[w].passed # NoSignature)

\* a quick launch, picked because the cache held the file of the signature,
\* has passed that signature to the external step
C26_Witness ==
    /\ Len(workers) = 1
    /\ workers[1].task = "quick_launch"
    /\ workers[1].pc = "ended"
    /\ workers[1].passed = workers[1].decided
    /\ workers[1].decided \in cache

====
